---- MODULE Spec2Model ----
(***************************************************************************)
(* FlowScore credit-risk dashboard (src/app.py).                           *)
(*                                                                         *)
(* The program is a Streamlit script: every user interaction re-executes   *)
(* the whole script top to bottom, with st.session_state, the widget       *)
(* values and the st.cache_resource cache surviving from run to run.  One  *)
(* action of this model is one complete script run.                        *)
(*                                                                         *)
(* Numbers are exact rationals [n, d] in lowest terms with d > 0, so that  *)
(* the divisions of the script (x / 100.0, (curr - prev) / prev) are       *)
(* computed and not assumed.                                               *)
(***************************************************************************)
EXTENDS Integers, Sequences, FiniteSets, TLC

VARIABLES
    widgets,          \* values held by the sidebar input widgets (lines 83-96)
    key_input,        \* text held by the API-key text_input (line 61)
    openai_installed, \* whether `from openai import OpenAI` succeeds (lines 15-20)
    secrets_key,      \* whether st.secrets holds OPENAI_API_KEY (lines 53-54)
    model_cache,      \* st.cache_resource entry of load_model (lines 30-32)
    session_state,    \* st.session_state: a function from the keys present
    predict_proba,    \* what the loaded classifier answers for the cached inputs
    input_df,         \* feature vector built in the last run (<<>> if none)
    screen,           \* what the last run rendered
    run,              \* the last run's trigger and the external calls it made
    api_calls         \* chat-completion requests made so far

vars == << widgets, key_input, openai_installed, secrets_key, model_cache,
           session_state, predict_proba, input_df, screen, run, api_calls >>

(***************************************************************************)
(* Exact rational arithmetic.                                              *)
(***************************************************************************)
RECURSIVE GCD(_, _)
GCD(a, b) == IF b = 0 THEN a ELSE GCD(b, a % b)

Abs(x) == IF x < 0 THEN -x ELSE x

Rat(n, d) ==
    LET s == IF d < 0 THEN -1 ELSE 1
        g == GCD(Abs(n), Abs(d))
    IN  [n |-> (s * n) \div g, d |-> (s * d) \div g]

Num(i) == Rat(i, 1)

RatSub(a, b) == Rat(a.n * b.d - b.n * a.d, a.d * b.d)
RatMul(a, b) == Rat(a.n * b.n, a.d * b.d)
RatDiv(a, b) == Rat(a.n * b.d, a.d * b.n)
RatLT(a, b)  == a.n * b.d < b.n * a.d
RatLE(a, b)  == a.n * b.d <= b.n * a.d
RatGT(a, b)  == RatLT(b, a)
RatGE(a, b)  == RatLE(b, a)

(***************************************************************************)
(* Bounds of the model.                                                    *)
(***************************************************************************)
\* Chat-completion requests a session makes before the report button is
\* no longer pressed.
MaxCalls == 2

(***************************************************************************)
(* Sidebar widgets.                                                        *)
(***************************************************************************)
DefaultWidgets ==
    [ sales_curr     |-> Num(120),
      sales_prev     |-> Num(100),
      biz_score      |-> Num(75),
      debt_ratio     |-> Num(200),
      current_ratio  |-> Num(120),
      late_pay_ratio |-> Num(5),
      avg_tx_hour    |-> Num(14),
      avg_delay_days |-> Num(0),
      tx_volatility  |-> Rat(2, 10),
      ceo_score      |-> Num(850) ]

\* Values a user edits the sidebar to, between two runs of the full session.
WidgetProfiles ==
    { DefaultWidgets,
      [ sales_curr     |-> Num(50),
        sales_prev     |-> Num(0),
        biz_score      |-> Num(40),
        debt_ratio     |-> Num(350),
        current_ratio  |-> Num(10),
        late_pay_ratio |-> Num(25),
        avg_tx_hour    |-> Num(18),
        avg_delay_days |-> Num(6),
        tx_volatility  |-> Rat(8, 10),
        ceo_score      |-> Num(600) ],
      [ sales_curr     |-> Num(90),
        sales_prev     |-> Num(100),
        biz_score      |-> Num(90),
        debt_ratio     |-> Num(90),
        current_ratio  |-> Num(8),
        late_pay_ratio |-> Num(3),
        avg_tx_hour    |-> Num(10),
        avg_delay_days |-> Num(5),
        tx_volatility  |-> Rat(1, 10),
        ceo_score      |-> Num(900) ] }

\* Values the pipeline is exercised on: every rule boundary and both sides of it.
SalesPairs ==
    { << Num(90), Num(100) >>, << Num(100), Num(100) >>,
      << Num(120), Num(100) >>, << Num(130), Num(100) >>,
      << Num(50), Num(0) >>, << Num(120), Num(-50) >> }

WidgetGrid ==
    { [ DefaultWidgets EXCEPT !.sales_curr = s[1], !.sales_prev = s[2],
                              !.debt_ratio = dr, !.current_ratio = cr,
                              !.late_pay_ratio = lp, !.avg_delay_days = dd ] :
        s \in SalesPairs,
        dr \in { Num(90), Num(100), Num(300), Num(350) },
        cr \in { Num(5), Num(10), Rat(100001, 10000), Num(120) },
        lp \in { Num(4), Num(5), Num(20), Num(21) },
        dd \in { Num(5), Num(6) } }

\* Approval probabilities the classifier may return: the grade boundaries
\* (risk 20, 50, 80), both sides of each, and the two ends.
ProbValues ==
    { Num(0), Rat(1999, 10000), Rat(2, 10), Rat(2001, 10000),
      Rat(4999, 10000), Rat(5, 10), Rat(5001, 10000),
      Rat(7999, 10000), Rat(8, 10), Rat(8001, 10000), Num(1) }

(***************************************************************************)
(* The scoring pipeline: pure functions of the script.                     *)
(***************************************************************************)

\* Variant: with no prior revenue the current revenue counts as growth
\* (C7 tells it from SalesGrowth).
SalesGrowthNoBaseline(sales_curr, sales_prev) ==
    IF RatGE(sales_prev, Num(0)) /\ sales_prev # Num(0)
    THEN RatDiv(RatSub(sales_curr, sales_prev), sales_prev)
    ELSE IF sales_prev = Num(0) THEN sales_curr
    ELSE Num(0)

\* Line 104: (sales_curr - sales_prev) / sales_prev if sales_prev > 0 else 0.
SalesGrowth(sales_curr, sales_prev) ==
    IF RatGT(sales_prev, Num(0))
    THEN RatDiv(RatSub(sales_curr, sales_prev), sales_prev)
    ELSE Num(0)

\* Lines 103-113: the dict stored under session_state['inputs'].
Inputs(w) ==
    [ sales_growth   |-> SalesGrowth(w.sales_curr, w.sales_prev),
      debt_ratio     |-> w.debt_ratio,
      current_ratio  |-> w.current_ratio,
      late_pay_ratio |-> w.late_pay_ratio,
      avg_delay_days |-> w.avg_delay_days,
      tx_volatility  |-> w.tx_volatility,
      biz_score      |-> w.biz_score,
      ceo_score      |-> w.ceo_score,
      avg_tx_hour    |-> w.avg_tx_hour ]

\* Lines 136-147: the one-row DataFrame, as a record keyed by column.
InputRow(vals) ==
    [ Biz_Score        |-> vals.biz_score,
      Sales_Growth     |-> vals.sales_growth,
      Late_Pay_Ratio   |-> RatDiv(vals.late_pay_ratio, Num(100)),
      Avg_Delay_Days   |-> vals.avg_delay_days,
      Debt_Ratio       |-> vals.debt_ratio,
      Current_Ratio    |-> RatDiv(vals.current_ratio, Num(100)),
      Tx_Volatility    |-> vals.tx_volatility,
      Avg_Tx_Hour      |-> vals.avg_tx_hour,
      CEO_Score        |-> vals.ceo_score,
      Weekend_Tx_Ratio |-> Num(0),
      OPM_Change       |-> Rat(2, 100),
      Rev_Per_Emp      |-> Num(300000),
      Emp_Momentum     |-> Rat(5, 100) ]

\* Line 152: risk_score = (1 - prob) * 100.
RiskScore(prob) == RatMul(RatSub(Num(1), prob), Num(100))

\* Variant: the lower bound of each band is exclusive (C3 tells it from Grade).
GradeStrict(risk_score) ==
    IF RatGT(risk_score, Num(80)) THEN "D"
    ELSE IF RatGT(risk_score, Num(50)) THEN "C"
    ELSE IF RatGT(risk_score, Num(20)) THEN "B"
    ELSE "A"

\* Lines 157-160: the grade letter (the colour goes with the letter).
Grade(risk_score) ==
    IF RatGE(risk_score, Num(80)) THEN "D"
    ELSE IF RatGE(risk_score, Num(50)) THEN "C"
    ELSE IF RatGE(risk_score, Num(20)) THEN "B"
    ELSE "A"

\* Variant: approval needs prob > 0.5 (C2 tells it from Recommendation).
RecommendationStrict(prob) ==
    IF RatGT(prob, Rat(5, 10)) THEN "approve" ELSE "reject"

\* Lines 168-171 and 305: the verdict shown and the one put in the prompt.
Recommendation(prob) ==
    IF RatGE(prob, Rat(5, 10)) THEN "approve" ELSE "reject"

\* Factor titles (lines 213-231), in English; the numerals interpolated
\* into a title or description are not part of the model.
LatePayExcess     == "excessive afternoon payments"
HealthyPayment    == "healthy payment habit"
PaymentDelay      == "payment delay"
FaithfulRepayment == "faithful repayment"
DebtRatioDanger   == "debt ratio danger"
SoundStructure    == "sound financial structure"
RevenueDecline    == "revenue contraction"
HighGrowth        == "high growth"

\* Variant: every comparison is inclusive (C8 tells it from Factors).
FactorsInclusive(vals) ==
    LET p1 == IF RatGE(vals.late_pay_ratio, Num(20)) THEN << >>
              ELSE IF RatLE(vals.late_pay_ratio, Num(5)) THEN << HealthyPayment >>
              ELSE << >>
        n1 == IF RatGE(vals.late_pay_ratio, Num(20)) THEN << LatePayExcess >>
              ELSE << >>
        p2 == IF RatGE(vals.avg_delay_days, Num(5)) THEN p1
              ELSE Append(p1, FaithfulRepayment)
        n2 == IF RatGE(vals.avg_delay_days, Num(5)) THEN Append(n1, PaymentDelay)
              ELSE n1
        p3 == IF RatGE(vals.debt_ratio, Num(300)) THEN p2
              ELSE IF RatLE(vals.debt_ratio, Num(100)) THEN Append(p2, SoundStructure)
              ELSE p2
        n3 == IF RatGE(vals.debt_ratio, Num(300)) THEN Append(n2, DebtRatioDanger)
              ELSE n2
        p4 == IF RatLE(vals.sales_growth, Num(0)) THEN p3
              ELSE IF RatGE(vals.sales_growth, Rat(2, 10)) THEN Append(p3, HighGrowth)
              ELSE p3
        n4 == IF RatLE(vals.sales_growth, Num(0)) THEN Append(n3, RevenueDecline)
              ELSE n3
    IN  [ positives |-> p4, negatives |-> n4 ]

\* Lines 208-231: the two factor lists, appended to in rule order.
Factors(vals) ==
    LET p1 == IF RatGT(vals.late_pay_ratio, Num(20)) THEN << >>
              ELSE IF RatLT(vals.late_pay_ratio, Num(5)) THEN << HealthyPayment >>
              ELSE << >>
        n1 == IF RatGT(vals.late_pay_ratio, Num(20)) THEN << LatePayExcess >>
              ELSE << >>
        p2 == IF RatGT(vals.avg_delay_days, Num(5)) THEN p1
              ELSE Append(p1, FaithfulRepayment)
        n2 == IF RatGT(vals.avg_delay_days, Num(5)) THEN Append(n1, PaymentDelay)
              ELSE n1
        p3 == IF RatGT(vals.debt_ratio, Num(300)) THEN p2
              ELSE IF RatLT(vals.debt_ratio, Num(100)) THEN Append(p2, SoundStructure)
              ELSE p2
        n3 == IF RatGT(vals.debt_ratio, Num(300)) THEN Append(n2, DebtRatioDanger)
              ELSE n2
        p4 == IF RatLT(vals.sales_growth, Num(0)) THEN p3
              ELSE IF RatGT(vals.sales_growth, Rat(2, 10)) THEN Append(p3, HighGrowth)
              ELSE p3
        n4 == IF RatLT(vals.sales_growth, Num(0)) THEN Append(n3, RevenueDecline)
              ELSE n3
    IN  [ positives |-> p4, negatives |-> n4 ]

\* Lines 299-324: the values filled into the prompt template (their
\* rendering as decimal text is not part of the model).
Prompt(vals, prob) ==
    [ risk_score |-> RiskScore(prob),
      grade      |-> Grade(RiskScore(prob)),
      verdict    |-> Recommendation(prob),
      vals       |-> vals ]

(***************************************************************************)
(* The environment of one script run.                                      *)
(***************************************************************************)

\* What joblib.load does when load_model's cache is empty (lines 32, 37, 41).
LoadOutcomes == { "ok", "missing", "exception" }

\* What client.chat.completions.create does (lines 327-335).
Responses == { "text", "raise" }

\* What model.predict_proba does for a feature vector (lines 151, 153).
Raised == [ kind |-> "raise", prob |-> Num(0) ]
Unasked == [ kind |-> "unasked", prob |-> Num(0) ]
PredictOutcomes ==
    { [ kind |-> "prob", prob |-> p ] : p \in ProbValues } \cup { Raised }

\* The answers used where the inputs, not the answers, are what varies.
GridOutcomes ==
    { [ kind |-> "prob", prob |-> p ] : p \in { Rat(5, 10), Rat(3, 10) } }
        \cup { Raised }

KeyTexts == { "", "sk" }

(***************************************************************************)
(* The sections of the script.                                             *)
(***************************************************************************)

\* Variant: st.stop() at line 40 is left out, as the comment at line 39
\* proposes (C6 tells it from ModelLoad).
ModelLoadNoStop(cache, art) ==
    IF cache \/ art = "ok"
    THEN [ model |-> "loaded", error |-> "none", stop |-> FALSE ]
    ELSE IF art = "missing"
    THEN [ model |-> "None", error |-> "missing", stop |-> FALSE ]
    ELSE [ model |-> "None", error |-> "exception", stop |-> TRUE ]

\* Lines 30-43: load_model through st.cache_resource, st.error and st.stop.
ModelLoad(cache, art) ==
    IF cache \/ art = "ok"
    THEN [ model |-> "loaded", error |-> "none", stop |-> FALSE ]
    ELSE IF art = "missing"
    THEN [ model |-> "None", error |-> "missing", stop |-> TRUE ]
    ELSE [ model |-> "None", error |-> "exception", stop |-> TRUE ]

\* Lines 48-61: the key comes from the secrets, else from the text input.
ApiKey(installed, secret, key) ==
    IF ~installed THEN ""
    ELSE IF secret THEN "secret"
    ELSE key

\* Lines 59-61: the text input is drawn when no key came from the secrets.
KeyBox(installed, secret) == installed /\ ~secret

\* Lines 63-67: a client exists when there is a key and OpenAI(...) returns.
Client(installed, secret, key, ctor) ==
    ApiKey(installed, secret, key) # "" /\ ctor

\* Lines 72-73: the two keys are created when absent.
SessionInit(ss) ==
    [ k \in DOMAIN ss \cup { "analyzed", "genai_report" } |->
        IF k \in DOMAIN ss THEN ss[k]
        ELSE IF k = "analyzed" THEN FALSE
        ELSE << >> ]

\* Variant: line 115 is left out (C10 tells it from AnalysisHandler).
AnalysisHandlerKeepReport(ss, w) ==
    [ k \in DOMAIN ss \cup { "analyzed", "inputs", "genai_report" } |->
        IF k = "analyzed" THEN TRUE
        ELSE IF k = "inputs" THEN Inputs(w)
        ELSE ss[k] ]

\* Variant: a field of the earlier submission survives the assignment at
\* line 103 (C9 tells it from AnalysisHandler).
AnalysisHandlerMerge(ss, w) ==
    [ k \in DOMAIN ss \cup { "analyzed", "inputs", "genai_report" } |->
        IF k = "analyzed" THEN TRUE
        ELSE IF k = "inputs"
        THEN IF "inputs" \in DOMAIN ss
             THEN [ Inputs(w) EXCEPT !.biz_score = ss["inputs"].biz_score ]
             ELSE Inputs(w)
        ELSE << >> ]

\* Lines 100-115: the body of `if st.button(...)` in the sidebar.
AnalysisHandler(ss, w) ==
    [ k \in DOMAIN ss \cup { "analyzed", "inputs", "genai_report" } |->
        IF k = "analyzed" THEN TRUE
        ELSE IF k = "inputs" THEN Inputs(w)
        ELSE << >> ]

\* Variant: the except branch empties the report (C4 tells it from ReportCall).
ReportCallClearing(ss, prompt, resp) ==
    IF resp = "text"
    THEN [ ss EXCEPT !["genai_report"] = << prompt >> ]
    ELSE [ ss EXCEPT !["genai_report"] = << >> ]

\* Lines 326-335: the request, the assignment on success, st.error on failure.
\* The text returned is identified with the prompt it answers.
ReportCall(ss, prompt, resp) ==
    IF resp = "text"
    THEN [ ss EXCEPT !["genai_report"] = << prompt >> ]
    ELSE ss

\* A page on which nothing below the model load has been drawn.
BlankScreen ==
    [ stage          |-> "start",
      load_error     |-> "none",
      sidebar        |-> FALSE,
      key_box        |-> FALSE,
      risk_score     |-> << >>,
      grade          |-> << >>,
      recommendation |-> << >>,
      positives      |-> << >>,
      negatives      |-> << >>,
      client_warning |-> FALSE,
      report_button  |-> FALSE,
      report_error   |-> FALSE,
      report         |-> << >> ]

NoRun ==
    [ analysis_clicked |-> FALSE,
      report_clicked   |-> FALSE,
      load             |-> "none",
      predicted        |-> "none",
      requests         |-> 0,
      response         |-> "none" ]

(***************************************************************************)
(* One run of the script (lines 1-339).                                    *)
(*   w, key          widget values at this run                             *)
(*   analysis_btn    st.button at line 100 returns True                    *)
(*   report_btn      st.button at line 295 returns True, if it is reached  *)
(*   art, ctor, resp what the file system, OpenAI(...) and the chat        *)
(*                   service do if they are asked                          *)
(*   fresh           what the classifier answers for inputs it has not     *)
(*                   been asked about in the previous run                  *)
(***************************************************************************)
ScriptRun(w, key, analysis_btn, report_btn, art, ctor, resp, fresh) ==
    LET ld      == ModelLoad(model_cache, art)
        client  == Client(openai_installed, secrets_key, key, ctor)
        ss1     == SessionInit(session_state)
        ss2     == IF analysis_btn THEN AnalysisHandler(ss1, w) ELSE ss1
        same    == /\ "inputs" \in DOMAIN ss1
                   /\ "inputs" \in DOMAIN ss2
                   /\ ss1["inputs"] = ss2["inputs"]
        answer  == IF same \/ "inputs" \notin DOMAIN ss2
                   THEN predict_proba ELSE fresh
        vals    == ss2["inputs"]
        pred    == IF ld.model = "None" THEN Raised ELSE answer
        prob    == pred.prob
        fs      == Factors(vals)
        asks    == client /\ report_btn
        ss3     == IF asks THEN ReportCall(ss2, Prompt(vals, prob), resp) ELSE ss2
        side    == [ BlankScreen EXCEPT
                       !.load_error = ld.error,
                       !.sidebar = TRUE,
                       !.key_box = KeyBox(openai_installed, secrets_key) ]
        thisrun == [ NoRun EXCEPT
                       !.analysis_clicked = analysis_btn,
                       !.load = IF ld.error = "none" THEN "ok" ELSE ld.error ]
    IN  /\ widgets' = w
        /\ key_input' = key
        /\ UNCHANGED << openai_installed, secrets_key >>
        /\ model_cache' = (model_cache \/ art = "ok")
        /\ IF ld.stop
           THEN \* lines 38-43: st.error, st.stop
                /\ UNCHANGED << session_state, predict_proba, api_calls >>
                /\ input_df' = << >>
                /\ screen' = [ BlankScreen EXCEPT !.stage = "load_error",
                                                  !.load_error = ld.error ]
                /\ run' = [ NoRun EXCEPT !.load = ld.error ]
           ELSE IF ~ss2["analyzed"]
           THEN \* lines 122-124: st.info, st.stop
                /\ session_state' = ss2
                /\ UNCHANGED << predict_proba, api_calls >>
                /\ input_df' = << >>
                /\ screen' = [ side EXCEPT !.stage = "idle" ]
                /\ run' = thisrun
           ELSE IF pred.kind # "prob"
           THEN \* lines 153-155: st.error, st.stop
                /\ session_state' = ss2
                /\ predict_proba' = answer
                /\ UNCHANGED api_calls
                /\ input_df' = << InputRow(vals) >>
                /\ screen' = [ side EXCEPT !.stage = "predict_error" ]
                /\ run' = [ thisrun EXCEPT !.predicted = "raise" ]
           ELSE \* lines 157-339
                /\ session_state' = ss3
                /\ predict_proba' = answer
                /\ api_calls' = IF asks THEN api_calls + 1 ELSE api_calls
                /\ input_df' = << InputRow(vals) >>
                /\ screen' = [ side EXCEPT
                                 !.stage = "results",
                                 !.risk_score = << RiskScore(prob) >>,
                                 !.grade = << Grade(RiskScore(prob)) >>,
                                 !.recommendation = << Recommendation(prob) >>,
                                 !.positives = fs.positives,
                                 !.negatives = fs.negatives,
                                 !.client_warning = ~client,
                                 !.report_button = client,
                                 !.report_error = (asks /\ resp = "raise"),
                                 !.report = ss3["genai_report"] ]
                /\ run' = [ thisrun EXCEPT
                              !.predicted = "ok",
                              !.report_clicked = asks,
                              !.requests = IF asks THEN 1 ELSE 0,
                              !.response = IF asks THEN resp ELSE "none" ]

(***************************************************************************)
(* What triggers a run.                                                    *)
(***************************************************************************)

\* joblib.load is reached only while the cache is empty, OpenAI(...) only
\* with a key, and the classifier is asked anew only about new inputs.
ArtsNow(Arts) == IF model_cache THEN { "ok" } ELSE Arts

CtorsNow(Ctors, key) ==
    IF ApiKey(openai_installed, secrets_key, key) = "" THEN { TRUE } ELSE Ctors

FreshNow(w, Outcomes) ==
    IF "inputs" \in DOMAIN session_state /\ session_state["inputs"] = Inputs(w)
    THEN { Raised } ELSE Outcomes

\* The page is loaded, or re-run with nothing changed and no button pressed.
Rerun(Arts, Ctors) ==
    \E art \in ArtsNow(Arts), ctor \in CtorsNow(Ctors, key_input) :
        ScriptRun(widgets, key_input, FALSE, FALSE, art, ctor, "raise", Raised)

\* An input widget of the sidebar is edited.
EditWidgets(Arts, Ctors) ==
    /\ screen.sidebar
    /\ \E w \in WidgetProfiles \ { widgets } :
       \E art \in ArtsNow(Arts), ctor \in CtorsNow(Ctors, key_input) :
           ScriptRun(w, key_input, FALSE, FALSE, art, ctor, "raise", Raised)

\* The API key is typed into, or removed from, the sidebar's text input.
EditApiKey(Arts, Ctors) ==
    /\ screen.key_box
    /\ \E key \in KeyTexts \ { key_input } :
       \E art \in ArtsNow(Arts), ctor \in CtorsNow(Ctors, key) :
           ScriptRun(widgets, key, FALSE, FALSE, art, ctor, "raise", Raised)

\* The analysis button (line 100) is pressed.
PressAnalysis(Arts, Ctors, Outcomes) ==
    /\ screen.sidebar
    /\ \E art \in ArtsNow(Arts), ctor \in CtorsNow(Ctors, key_input) :
       \E fresh \in FreshNow(widgets, Outcomes) :
           ScriptRun(widgets, key_input, TRUE, FALSE, art, ctor, "raise", fresh)

\* The report button (line 295) is pressed.
PressReport(Arts, Ctors) ==
    /\ screen.report_button
    /\ api_calls < MaxCalls
    /\ \E art \in ArtsNow(Arts), ctor \in CtorsNow(Ctors, key_input) :
       \E resp \in Responses :
           ScriptRun(widgets, key_input, FALSE, TRUE, art, ctor, resp, Raised)

(***************************************************************************)
(* The session: the program from its start, every environment.             *)
(***************************************************************************)
NoKeys == [ k \in {} |-> k ]

Init ==
    /\ widgets = DefaultWidgets
    /\ key_input = ""
    /\ openai_installed \in BOOLEAN
    /\ secrets_key \in BOOLEAN
    /\ model_cache = FALSE
    /\ session_state = NoKeys
    /\ predict_proba = Unasked
    /\ input_df = << >>
    /\ screen = BlankScreen
    /\ run = NoRun
    /\ api_calls = 0

Next ==
    \/ Rerun(LoadOutcomes, BOOLEAN)
    \/ EditWidgets(LoadOutcomes, BOOLEAN)
    \/ EditApiKey(LoadOutcomes, BOOLEAN)
    \/ PressAnalysis(LoadOutcomes, BOOLEAN, PredictOutcomes)
    \/ PressReport(LoadOutcomes, BOOLEAN)

Spec == Init /\ [][Next]_vars

(***************************************************************************)
(* The pipeline on a grid of inputs: the widgets start anywhere on the     *)
(* grid, the artifact loads and a client exists.                           *)
(***************************************************************************)
InitGrid ==
    /\ widgets \in WidgetGrid
    /\ key_input = ""
    /\ openai_installed = TRUE
    /\ secrets_key = TRUE
    /\ model_cache = FALSE
    /\ session_state = NoKeys
    /\ predict_proba = Unasked
    /\ input_df = << >>
    /\ screen = BlankScreen
    /\ run = NoRun
    /\ api_calls = 0

NextGrid ==
    \/ Rerun({ "ok" }, { TRUE })
    \/ PressAnalysis({ "ok" }, { TRUE }, GridOutcomes)
    \/ PressReport({ "ok" }, { TRUE })

SpecGrid == InitGrid /\ [][NextGrid]_vars

(***************************************************************************)
(* Helpers of the properties below.                                        *)
(***************************************************************************)
Analyzed == "analyzed" \in DOMAIN session_state /\ session_state["analyzed"]

HasInputs == "inputs" \in DOMAIN session_state

StoredReport ==
    IF "genai_report" \in DOMAIN session_state
    THEN session_state["genai_report"] ELSE << >>

Elems(seq) == { seq[i] : i \in 1..Len(seq) }

\* The rule a factor title belongs to: payment 1, delay 2, debt 3, growth 4.
RuleOf(title) ==
    IF title \in { LatePayExcess, HealthyPayment } THEN 1
    ELSE IF title \in { PaymentDelay, FaithfulRepayment } THEN 2
    ELSE IF title \in { DebtRatioDanger, SoundStructure } THEN 3
    ELSE 4

InRuleOrder(seq) ==
    \A i \in 1..Len(seq), j \in 1..Len(seq) :
        i < j => RuleOf(seq[i]) < RuleOf(seq[j])

(***************************************************************************)
(* C1. Current_Ratio of the feature vector.                                *)
(***************************************************************************)

\* C1: the Current_Ratio field passed to the classifier is r / 100 when the
\* raw current ratio r exceeds 10 and r itself when r <= 10.
C1_CurrentRatioHeuristic ==
    Len(input_df) = 1 =>
        LET r == session_state["inputs"].current_ratio
        IN  IF RatGT(r, Num(10))
            THEN RatMul(input_df[1].Current_Ratio, Num(100)) = r
            ELSE input_df[1].Current_Ratio = r

(***************************************************************************)
(* C2. Recommendation against the grade table.                             *)
(***************************************************************************)

\* C2, as claimed: whenever results are shown, the recommendation is approve
\* exactly when the grade is A or B and reject exactly when it is C or D,
\* also at risk_score = 50.
C2_RecommendationMatchesGrade ==
    screen.stage = "results" =>
        /\ screen.recommendation[1] = "approve"
               <=> screen.grade[1] \in { "A", "B" }
        /\ screen.recommendation[1] = "reject"
               <=> screen.grade[1] \in { "C", "D" }

\* C2, amended: the recommendation is approve exactly when the grade is A
\* or B and reject exactly when it is C or D, except at probability 0.5
\* (risk_score = 50), where the grade is C and the recommendation approve.
C2_RecommendationMatchesGradeOffBoundary ==
    screen.stage = "results" =>
        /\ screen.recommendation[1] \in { "approve", "reject" }
        /\ screen.recommendation[1] = "approve"
               <=> RatLE(Rat(5, 10), predict_proba.prob)
        /\ IF predict_proba.prob = Rat(5, 10)
           THEN /\ screen.risk_score[1] = Num(50)
                /\ screen.grade[1] = "C"
                /\ screen.recommendation[1] = "approve"
           ELSE /\ screen.recommendation[1] = "approve"
                       <=> screen.grade[1] \in { "A", "B" }
                /\ screen.recommendation[1] = "reject"
                       <=> screen.grade[1] \in { "C", "D" }

\* Results are shown for probability 0.5: grade C beside approve.
C2_Witness ==
    /\ screen.stage = "results"
    /\ predict_proba.prob = Rat(5, 10)
    /\ screen.grade = << "C" >>
    /\ screen.recommendation = << "approve" >>

(***************************************************************************)
(* C3. Grade bands.                                                        *)
(***************************************************************************)

\* C3: the grade shown is D for risk >= 80, C for 50 <= risk < 80, B for
\* 20 <= risk < 50 and A for risk < 20, with risk = (1 - prob) * 100 in
\* [0, 100]; each lower bound is inclusive.
C3_GradeBands ==
    screen.stage = "results" =>
        LET r == screen.risk_score[1]
            g == screen.grade[1]
        IN  /\ RatLE(Num(0), r) /\ RatLE(r, Num(100))
            /\ RatMul(r, Rat(1, 100)) = RatSub(Num(1), predict_proba.prob)
            /\ g \in { "A", "B", "C", "D" }
            /\ g = "D" <=> RatLE(Num(80), r)
            /\ g = "C" <=> RatLE(Num(50), r) /\ RatLT(r, Num(80))
            /\ g = "B" <=> RatLE(Num(20), r) /\ RatLT(r, Num(50))
            /\ g = "A" <=> RatLT(r, Num(20))

\* Results are shown for a risk score on a band's lower bound.
C3_Witness ==
    /\ screen.stage = "results"
    /\ screen.risk_score = << Num(80) >>
    /\ screen.grade = << "D" >>

(***************************************************************************)
(* C4. Failure of the text-generation call.                                *)
(***************************************************************************)

\* C4: a run in which the report button was pressed makes exactly one
\* request and shows the score, grade and factor lists that were on the
\* page, whatever the request's outcome; when the request raises, the stored
\* report, the stored inputs and the analyzed flag keep their values and the
\* report shown is the stored one.
C4_FailedReportKeepsState ==
    [][ run'.report_clicked =>
          /\ run'.requests = 1
          /\ api_calls' = api_calls + 1
          /\ screen'.stage = "results"
          /\ screen'.risk_score = screen.risk_score
          /\ screen'.grade = screen.grade
          /\ screen'.recommendation = screen.recommendation
          /\ screen'.positives = screen.positives
          /\ screen'.negatives = screen.negatives
          /\ run'.response = "raise" =>
                /\ session_state' = session_state
                /\ screen'.report_error
                /\ screen'.report = session_state["genai_report"]
      ]_vars

\* A request has just raised while a report generated earlier is stored.
C4_Witness ==
    /\ run.report_clicked
    /\ run.response = "raise"
    /\ screen.report_error
    /\ Len(StoredReport) = 1
    /\ screen.report = StoredReport

(***************************************************************************)
(* C5. Failure of the prediction call.                                     *)
(***************************************************************************)

\* C5: when the prediction raises in a run started by the analysis button,
\* after a submission whose prediction succeeded, the cached inputs and the
\* stored report are those of the earlier submission and its score, grade
\* and factors are still on the page.
C5_FailedSubmissionKeepsPrior ==
    [][ ( /\ HasInputs
          /\ predict_proba.kind = "prob"
          /\ screen.stage = "results"
          /\ run'.analysis_clicked
          /\ run'.predicted = "raise" ) =>
          /\ session_state'["inputs"] = session_state["inputs"]
          /\ session_state'["genai_report"] = session_state["genai_report"]
          /\ screen'.risk_score = screen.risk_score
          /\ screen'.grade = screen.grade
          /\ screen'.positives = screen.positives
          /\ screen'.negatives = screen.negatives
      ]_vars

(***************************************************************************)
(* C6. Failure of the model load.                                          *)
(***************************************************************************)

C7_SalesGrowth ==
    HasInputs =>
        LET g == session_state["inputs"].sales_growth
            c == widgets.sales_curr
            p == widgets.sales_prev
        IN  /\ RatGT(p, Num(0)) => RatMul(g, p) = RatSub(c, p)
            /\ ~RatGT(p, Num(0)) => g = Num(0)
            /\ (screen.stage = "results" /\ g = Num(0)) =>
                  /\ HighGrowth \notin Elems(screen.positives)
                  /\ RevenueDecline \notin Elems(screen.negatives)

\* Results are shown for prior revenue 0 and current revenue 50.
C7_Witness ==
    /\ HasInputs
    /\ widgets.sales_prev = Num(0)
    /\ widgets.sales_curr = Num(50)
    /\ session_state["inputs"].sales_growth = Num(0)
    /\ screen.stage = "results"

(***************************************************************************)
(* C8. The four explanation rules.                                         *)
(***************************************************************************)

\* C8: each rule adds at most one factor, to one list only, on exactly the
\* stated condition; the page holds between 1 and 4 factors and each list
\* is in the rule order payment, delay, debt, growth.
C8_FactorRules ==
    screen.stage = "results" =>
        LET v   == session_state["inputs"]
            pos == screen.positives
            neg == screen.negatives
            P   == Elems(pos)
            N   == Elems(neg)
        IN  /\ P \subseteq { HealthyPayment, FaithfulRepayment,
                             SoundStructure, HighGrowth }
            /\ N \subseteq { LatePayExcess, PaymentDelay,
                             DebtRatioDanger, RevenueDecline }
            /\ LatePayExcess \in N <=> RatGT(v.late_pay_ratio, Num(20))
            /\ HealthyPayment \in P <=> RatLT(v.late_pay_ratio, Num(5))
            /\ PaymentDelay \in N <=> RatGT(v.avg_delay_days, Num(5))
            /\ FaithfulRepayment \in P <=> ~RatGT(v.avg_delay_days, Num(5))
            /\ DebtRatioDanger \in N <=> RatGT(v.debt_ratio, Num(300))
            /\ SoundStructure \in P <=> RatLT(v.debt_ratio, Num(100))
            /\ RevenueDecline \in N <=> RatLT(v.sales_growth, Num(0))
            /\ HighGrowth \in P <=> RatGT(v.sales_growth, Rat(2, 10))
            /\ InRuleOrder(pos)
            /\ InRuleOrder(neg)
            /\ \A i \in 1..Len(pos), j \in 1..Len(neg) :
                   RuleOf(pos[i]) # RuleOf(neg[j])
            /\ Len(pos) + Len(neg) >= 1
            /\ Len(pos) + Len(neg) <= 4

\* Results are shown for inputs on the inclusive ends of the neutral zones:
\* only the delay rule speaks.
C8_Witness ==
    /\ screen.stage = "results"
    /\ session_state["inputs"].late_pay_ratio = Num(20)
    /\ session_state["inputs"].debt_ratio = Num(300)
    /\ session_state["inputs"].sales_growth = Rat(2, 10)
    /\ session_state["inputs"].avg_delay_days = Num(5)
    /\ screen.positives = << FaithfulRepayment >>
    /\ screen.negatives = << >>

(***************************************************************************)
(* C9. The cached inputs.                                                  *)
(***************************************************************************)

\* C9: after a run started by the analysis button the cache holds exactly
\* the nine fields, each with the value of its widget at that run
\* (sales_growth computed from the two revenue widgets); after any other run
\* the cache is what it was.
C9_InputsReplacedWholesale ==
    [][ /\ run'.analysis_clicked =>
              LET v == session_state'["inputs"]
                  w == widgets'
              IN  /\ DOMAIN v = { "sales_growth", "debt_ratio", "current_ratio",
                                  "late_pay_ratio", "avg_delay_days",
                                  "tx_volatility", "biz_score", "ceo_score",
                                  "avg_tx_hour" }
                  /\ RatGT(w.sales_prev, Num(0)) =>
                        RatMul(v.sales_growth, w.sales_prev)
                            = RatSub(w.sales_curr, w.sales_prev)
                  /\ ~RatGT(w.sales_prev, Num(0)) => v.sales_growth = Num(0)
                  /\ v.debt_ratio = w.debt_ratio
                  /\ v.current_ratio = w.current_ratio
                  /\ v.late_pay_ratio = w.late_pay_ratio
                  /\ v.avg_delay_days = w.avg_delay_days
                  /\ v.tx_volatility = w.tx_volatility
                  /\ v.biz_score = w.biz_score
                  /\ v.ceo_score = w.ceo_score
                  /\ v.avg_tx_hour = w.avg_tx_hour
        /\ ~run'.analysis_clicked =>
              /\ HasInputs <=> "inputs" \in DOMAIN session_state'
              /\ HasInputs => session_state'["inputs"] = session_state["inputs"]
      ]_vars

\* The analysis button has just been pressed on edited widgets, after an
\* earlier analysis for which a report was requested.
C9_Witness ==
    /\ run.analysis_clicked
    /\ api_calls >= 1
    /\ widgets.biz_score = Num(40)
    /\ session_state["inputs"].biz_score = Num(40)

(***************************************************************************)
(* C10. The stored report and the cached inputs.                           *)
(***************************************************************************)

\* C10: a stored report was generated from the inputs now cached and from
\* the score and grade they give; a report on the page is the stored one,
\* beside that score and grade; a run started by the analysis button leaves
\* no report; there is no report before the first analysis.
C10_ReportMatchesInputs ==
    /\ Len(StoredReport) > 0 =>
          /\ Analyzed
          /\ HasInputs
          /\ StoredReport[1].vals = session_state["inputs"]
          /\ predict_proba.kind = "prob"
          /\ RatMul(StoredReport[1].risk_score, Rat(1, 100))
                 = RatSub(Num(1), predict_proba.prob)
    /\ Len(screen.report) > 0 =>
          /\ screen.report = StoredReport
          /\ screen.stage = "results"
          /\ screen.risk_score = << StoredReport[1].risk_score >>
          /\ screen.grade = << StoredReport[1].grade >>
          /\ screen.recommendation = << StoredReport[1].verdict >>
    /\ run.analysis_clicked => Len(StoredReport) = 0
    /\ ~Analyzed => Len(StoredReport) = 0

\* A report for a second submission is on the page after the widgets were
\* edited away from the inputs it was generated from.
C10_Witness ==
    /\ Len(screen.report) = 1
    /\ api_calls = 2
    /\ session_state["inputs"].biz_score = Num(40)
    /\ widgets.biz_score # Num(40)

====
